---- MODULE Spec2Model ----
(***************************************************************************)
(* Road-damage reporting backend (src/backend/server.js).                  *)
(*                                                                         *)
(* The module models                                                       *)
(*   - the letterbox arithmetic of preprocessImage,                        *)
(*   - the inverse coordinate mapping and confidence filter of             *)
(*     processDetections,                                                  *)
(*   - the layout of the tensor handed to the ONNX session,                *)
(*   - the /predict, /approve/:id and /detections/:userId handlers over    *)
(*     the Detection collection.                                           *)
(*                                                                         *)
(* JavaScript numbers are modelled as exact rationals [num, den] kept in   *)
(* lowest terms; den = 0 stands for undefined / NaN (every comparison      *)
(* with it is false, every arithmetic result with it is NaN).  IEEE        *)
(* rounding error of the doubles is orders of magnitude below the          *)
(* tolerance used by the geometric properties.                             *)
(***************************************************************************)
EXTENDS Integers, Sequences, FiniteSets, TLC

VARIABLES
    session,     \* the global ONNX session: "unset" | "loaded" | "exited"
    db,          \* the Detection collection, a sequence of documents
    req,         \* the request being answered
    res,         \* the response sent for req
    image,       \* pure-function specs: the image dimensions under test
    letterbox,   \* pure-function specs: what preprocessImage computed
    output,      \* pure-function specs: the raw model output under test
    detections,  \* pure-function specs: what processDetections returned
    canvas,      \* tensor spec: the letterboxed canvas sharp rendered
    sample,      \* tensor spec: one element read from the tensor
    pc           \* pure-function specs: "input" | "done"

vars == <<session, db, req, res, image, letterbox, output, detections,
          canvas, sample, pc>>

(***************************************************************************)
(* Constants of the program and bounds of the model.                       *)
(***************************************************************************)
targetSize == 640

\* image sides 1..MaxDim are enumerated exhaustively by SpecLetterbox
MaxDim == 200
\* longest raw output, in rows, enumerated by SpecMapper
MaxRows == 3
\* most documents the Detection collection holds in Spec
MaxRecords == 2

(***************************************************************************)
(* Numbers.                                                                *)
(***************************************************************************)
RECURSIVE GCD(_, _)
GCD(a, b) == IF b = 0 THEN a ELSE GCD(b, a % b)

Abs(n) == IF n < 0 THEN 0 - n ELSE n

NaN == [num |-> 0, den |-> 0]

IsNaN(a) == a.den = 0

\* the rational n/d in lowest terms with a positive denominator
Rat(n, d) ==
    IF d = 0 THEN NaN
    ELSE LET g == GCD(Abs(n), Abs(d))
             s == IF d < 0 THEN 0 - 1 ELSE 1
         IN  [num |-> (s * n) \div g, den |-> (s * d) \div g]

Int2Num(n) == [num |-> n, den |-> 1]

Mul(a, b) == IF IsNaN(a) \/ IsNaN(b) THEN NaN ELSE Rat(a.num * b.num, a.den * b.den)

Div(a, b) == IF IsNaN(a) \/ IsNaN(b) THEN NaN ELSE Rat(a.num * b.den, a.den * b.num)

Add(a, b) ==
    IF IsNaN(a) \/ IsNaN(b) THEN NaN
    ELSE Rat(a.num * b.den + b.num * a.den, a.den * b.den)

Sub(a, b) ==
    IF IsNaN(a) \/ IsNaN(b) THEN NaN
    ELSE Rat(a.num * b.den - b.num * a.den, a.den * b.den)

\* a > b as JavaScript evaluates it: false when either side is undefined/NaN
GT(a, b) == ~IsNaN(a) /\ ~IsNaN(b) /\ a.num * b.den > b.num * a.den

LE(a, b) == ~IsNaN(a) /\ ~IsNaN(b) /\ a.num * b.den <= b.num * a.den

\* Math.min of two numbers
MathMin(a, b) == IF IsNaN(a) \/ IsNaN(b) THEN NaN ELSE IF LE(a, b) THEN a ELSE b

MathMax(a, b) == IF IsNaN(a) \/ IsNaN(b) THEN NaN ELSE IF LE(a, b) THEN b ELSE a

\* Math.round: the nearest integer, a tie going towards +Infinity
MathRound(a) == (2 * a.num + a.den) \div (2 * a.den)

MathFloor(a) == a.num \div a.den

(***************************************************************************)
(* preprocessImage: the letterbox arithmetic.                              *)
(***************************************************************************)
ScaleMax(originalWidth, originalHeight) ==
    MathMax(Rat(targetSize, originalWidth), Rat(targetSize, originalHeight))

\* const scale = Math.min(targetSize / originalWidth, targetSize / originalHeight)
Scale(originalWidth, originalHeight) ==
    MathMin(Rat(targetSize, originalWidth), Rat(targetSize, originalHeight))

\* Math.round(original * scale)
Scaled(original, scale) == MathRound(Mul(Int2Num(original), scale))

PadBeforeFloor(scaled) == MathFloor(Rat(targetSize - scaled, 2))

\* top / left: Math.round((targetSize - scaled) / 2)
PadBefore(scaled) == MathRound(Rat(targetSize - scaled, 2))

\* bottom / right: targetSize - scaled - Math.round((targetSize - scaled) / 2)
PadAfter(scaled) == targetSize - scaled - MathRound(Rat(targetSize - scaled, 2))

\* the arguments preprocessImage hands to sharp's resize and extend, and the
\* fields it returns
preprocessImage(originalWidth, originalHeight) ==
    LET scale        == Scale(originalWidth, originalHeight)
        scaledWidth  == Scaled(originalWidth, scale)
        scaledHeight == Scaled(originalHeight, scale)
    IN  [originalWidth  |-> originalWidth,
         originalHeight |-> originalHeight,
         scale          |-> scale,
         scaledWidth    |-> scaledWidth,
         scaledHeight   |-> scaledHeight,
         top            |-> PadBefore(scaledHeight),
         bottom         |-> PadAfter(scaledHeight),
         left           |-> PadBefore(scaledWidth),
         right          |-> PadAfter(scaledWidth)]

NoLetterbox == [originalWidth |-> 0, originalHeight |-> 0, scale |-> NaN,
                scaledWidth |-> 0, scaledHeight |-> 0,
                top |-> 0, bottom |-> 0, left |-> 0, right |-> 0]

NoImage == [width |-> 0, height |-> 0]

(***************************************************************************)
(* processDetections: confidence filter and inverse coordinate mapping.    *)
(***************************************************************************)
\* rawData[i], 0-based: undefined past the end of the array
At(rawData, i) == IF i < Len(rawData) THEN rawData[i + 1] ELSE NaN

\* ((value / targetSize) * originalDimension) / scale
MapCoord(value, originalDimension, scale) ==
    Div(Mul(Div(value, Int2Num(targetSize)), Int2Num(originalDimension)), scale)

KeepAtLeast(confidence) == GT(confidence, Rat(1, 2)) \/ confidence = Rat(1, 2)

\* if (confidence > 0.5)
Keep(confidence) == GT(confidence, Rat(1, 2))

PushFront(dets, d) == <<d>> \o dets

\* detections.push(d)
Push(dets, d) == Append(dets, d)

\* for (let i = 0; i < rawData.length; i += 6) { ... }
RECURSIVE ProcessLoop(_, _, _, _, _, _)
ProcessLoop(rawData, i, dets, originalWidth, originalHeight, scale) ==
    IF ~(i < Len(rawData)) THEN dets
    ELSE LET x_center   == At(rawData, i)
             y_center   == At(rawData, i + 1)
             width      == At(rawData, i + 2)
             height     == At(rawData, i + 3)
             confidence == At(rawData, i + 4)
             classId    == At(rawData, i + 5)
             d == [x          |-> MapCoord(x_center, originalWidth, scale),
                   y          |-> MapCoord(y_center, originalHeight, scale),
                   width      |-> MapCoord(width, originalWidth, scale),
                   height     |-> MapCoord(height, originalHeight, scale),
                   confidence |-> confidence,
                   classId    |-> classId]
         IN  ProcessLoop(rawData, i + 6,
                         IF Keep(confidence) THEN Push(dets, d) ELSE dets,
                         originalWidth, originalHeight, scale)

\* output is the session's output tensor; output.data its flat values
processDetections(out, originalWidth, originalHeight, scale) ==
    ProcessLoop(out.data, 0, <<>>, originalWidth, originalHeight, scale)

(***************************************************************************)
(* The tensor handed to session.run.  The canvas is 3 * targetSize^2       *)
(* samples, so it is kept as a description (every pixel black but one)     *)
(* and the buffers derived from it are read element by element.            *)
(***************************************************************************)
\* the 8-bit sample of channel c at pixel (r, k) of the letterboxed canvas
CanvasSample(cv, r, k, c) ==
    IF r = cv.row /\ k = cv.col THEN cv.rgb[c + 1] ELSE 0

\* rawBuffer.length after removeAlpha().raw(): 3 samples for each pixel
RawBufferLength == targetSize * targetSize * 3

\* rawBuffer[i]: sharp's raw() output is interleaved, pixel after pixel in row
\* order, the 3 channel samples of a pixel side by side
RawBufferAt(cv, i) ==
    CanvasSample(cv, (i \div 3) \div targetSize, (i \div 3) % targetSize, i % 3)

\* float32Data[i] = rawBuffer[i] / 255.0
Float32DataAt(cv, i) == Rat(RawBufferAt(cv, i), 255)

\* the dims given to new ort.Tensor
TensorDims == <<1, 3, targetSize, targetSize>>

\* element [0, c, r, k] of a tensor of dims TensorDims over float32Data
TensorAt(cv, c, r, k) ==
    Float32DataAt(cv, (c * TensorDims[3] + r) * TensorDims[4] + k)

(***************************************************************************)
(* The HTTP handlers.                                                      *)
(***************************************************************************)
\* req.file is undefined, or sharp cannot decode the upload
NoFile == [width |-> 0, height |-> 0]

\* res.status(500).json({success: false, error: "Failed to process image", details})
PredictFailed(details) ==
    /\ res' = [status |-> 500, success |-> FALSE, details |-> details]
    /\ db' = db

OutputInvalidOrEmpty(out) == out.missing \/ Len(out.data) = 0

\* if (!output || !output.data)
OutputInvalid(out) == out.missing

\* app.post("/predict"): stored tells whether the composite image was written
\* and Detection.create resolved
PredictHandler(file, out, userId, stored) ==
    IF file = NoFile THEN PredictFailed("Input file is missing")
    ELSE
      LET lb == preprocessImage(file.width, file.height)
      IN  IF lb.scaledWidth < 1 \/ lb.scaledHeight < 1
          THEN PredictFailed("Expected positive integer")  \* sharp's resize throws
          ELSE IF session # "loaded"
          THEN PredictFailed("Cannot read properties of undefined")
          ELSE IF OutputInvalid(out)
          THEN PredictFailed("Invalid Model Output")
          ELSE
            LET dets == processDetections(out, lb.originalWidth,
                                          lb.originalHeight, lb.scale)
                doc  == [_id            |-> Len(db) + 1,
                         detections     |-> dets,
                         originalWidth  |-> lb.originalWidth,
                         originalHeight |-> lb.originalHeight,
                         userId         |-> userId,
                         status         |-> "pending"]
            IN  IF ~stored THEN PredictFailed("storage")
                ELSE /\ db' = Append(db, doc)
                     /\ res' = [status      |-> 200,
                                success     |-> TRUE,
                                detectionId |-> doc._id,
                                detections  |-> dets]

ApproveAnyRole(role, id) ==
    IF id \in DOMAIN db
    THEN /\ db' = [db EXCEPT ![id].status = "approved"]
         /\ res' = [status |-> 200, message |-> "Image approved",
                    detection |-> db'[id]]
    ELSE /\ db' = db
         /\ res' = [status |-> 404, error |-> "Detection not found"]

\* app.put("/approve/:id"), after the auth middleware set req.user
ApproveHandler(role, id) ==
    IF role # "admin"
    THEN /\ res' = [status |-> 403, error |-> "Forbidden"]
         /\ db' = db
    ELSE IF id \in DOMAIN db
    THEN /\ db' = [db EXCEPT ![id].status = "approved"]
         /\ res' = [status |-> 200, message |-> "Image approved",
                    detection |-> db'[id]]
    ELSE /\ db' = db
         /\ res' = [status |-> 404, error |-> "Detection not found"]

\* app.get("/detections/:userId")
DetectionsHandler(userId) ==
    LET mine(doc) == doc.userId = userId
    IN  /\ res' = [status |-> 200, success |-> TRUE,
                   detections |-> SelectSeq(db, mine)]
        /\ db' = db

(***************************************************************************)
(* Values the variables of the other specifications rest at.               *)
(***************************************************************************)
\* outputs[Object.keys(outputs)[0]] is undefined, or has no data
NoOutput == [data |-> <<>>, missing |-> TRUE]

NoReq == [kind |-> "none"]

NoRes == [status |-> 0]

NoCanvas == [row |-> 0, col |-> 0, rgb |-> <<0, 0, 0>>]

NoSample == [dims |-> <<>>, length |-> 0, c |-> 0, r |-> 0, k |-> 0, value |-> NaN]

(***************************************************************************)
(* SpecLetterbox: preprocessImage applied to every image size of Dims.     *)
(***************************************************************************)
\* sides beyond MaxDim: around targetSize, common camera sizes, and a side
\* long enough for the other one to scale to 0
ExtraDims == {639, 640, 641, 719, 720, 1279, 1280, 1281}

Dims == (1 .. MaxDim) \cup ExtraDims

InitLetterbox ==
    /\ session = "unset"
    /\ db = <<>>
    /\ req = NoReq
    /\ res = NoRes
    /\ image \in [width : Dims, height : Dims]
    /\ letterbox = NoLetterbox
    /\ output = NoOutput
    /\ detections = <<>>
    /\ canvas = NoCanvas
    /\ sample = NoSample
    /\ pc = "input"

RunPreprocess ==
    /\ pc = "input"
    /\ letterbox' = preprocessImage(image.width, image.height)
    /\ pc' = "done"
    /\ UNCHANGED <<session, db, req, res, image, output, detections, canvas, sample>>

NextLetterbox == RunPreprocess

SpecLetterbox == InitLetterbox /\ [][NextLetterbox]_vars

\* C7: for every positive originalWidth and originalHeight the scaled size fits
\* the target square, the four amounts handed to extend are non-negative
\* integers, and the extended canvas is exactly targetSize x targetSize.
C7_ScaledFitsTarget ==
    pc = "done" =>
        /\ letterbox.scaledWidth <= targetSize
        /\ letterbox.scaledHeight <= targetSize
        /\ {letterbox.top, letterbox.bottom, letterbox.left, letterbox.right} \subseteq Nat
        /\ letterbox.left + letterbox.scaledWidth + letterbox.right = targetSize
        /\ letterbox.top + letterbox.scaledHeight + letterbox.bottom = targetSize

\* a downscaled landscape image whose height leaves an odd amount to pad
C7_Witness ==
    /\ pc = "done"
    /\ image.width > targetSize
    /\ letterbox.scaledWidth = targetSize
    /\ letterbox.scaledHeight < targetSize
    /\ letterbox.top > 0
    /\ letterbox.bottom > 0
    /\ (targetSize - letterbox.scaledHeight) % 2 = 1

\* C6 as stated: the rounding remainder of the padding lands on bottom/right,
\* padTop <= padBottom and padLeft <= padRight, the two sides differing by at
\* most 1.
C6_RemainderBottomRight ==
    pc = "done" =>
        /\ letterbox.top <= letterbox.bottom
        /\ letterbox.bottom - letterbox.top <= 1
        /\ letterbox.left <= letterbox.right
        /\ letterbox.right - letterbox.left <= 1

\* C6 amended: the rounding remainder of the padding lands on top/left: the
\* two sides share the padding, padTop >= padBottom and padLeft >= padRight,
\* differing by exactly the remainder (0 or 1).
C6_RemainderTopLeft ==
    pc = "done" =>
        /\ letterbox.top + letterbox.bottom = targetSize - letterbox.scaledHeight
        /\ letterbox.top - letterbox.bottom = (targetSize - letterbox.scaledHeight) % 2
        /\ letterbox.left + letterbox.right = targetSize - letterbox.scaledWidth
        /\ letterbox.left - letterbox.right = (targetSize - letterbox.scaledWidth) % 2

\* an odd amount of vertical padding: the top gets the extra pixel
C6_Witness ==
    /\ pc = "done"
    /\ (targetSize - letterbox.scaledHeight) % 2 = 1
    /\ letterbox.top = letterbox.bottom + 1
    /\ letterbox.left = letterbox.right

(***************************************************************************)
(* SpecMapper: preprocessImage then processDetections, as /predict chains  *)
(* them, over images of MapperImages and raw outputs of up to MaxRows rows *)
(* with or without a trailing partial row.                                 *)
(***************************************************************************)
Row(xc, yc, w, h, cn, cd, cls) ==
    <<Int2Num(xc), Int2Num(yc), Int2Num(w), Int2Num(h), Rat(cn, cd), Int2Num(cls)>>

\* canvas-space rows: confidences below, at, just above and well above 0.5
RowSet ==
    { Row(320, 320, 100, 60, 9, 10, 0),
      Row(320, 320, 64, 64, 1, 2, 1),
      Row(600, 320, 80, 40, 5001, 10000, 2),
      Row(160, 400, 40, 40, 3, 10, 3),
      Row(320, 320, 200, 120, 3, 4, 1),
      Row(40, 300, 60, 20, 1, 1, 4) }

RECURSIVE RowSeqs(_)
RowSeqs(n) ==
    IF n = 0 THEN {<<>>}
    ELSE LET shorter == RowSeqs(n - 1)
         IN  shorter \cup {s \o r : s \in {t \in shorter : Len(t) = 6 * (n - 1)}, r \in RowSet}

\* a raw output: whole rows, then possibly one stray value
RawOutputs ==
    {[data |-> s \o t, missing |-> FALSE] :
        s \in RowSeqs(MaxRows), t \in {<<>>, <<Int2Num(320)>>}}

MapperImages ==
    { [width |-> 1280, height |-> 720],
      [width |-> 100,  height |-> 200],
      [width |-> 640,  height |-> 640],
      [width |-> 640,  height |-> 480],
      [width |-> 720,  height |-> 1280],
      [width |-> 639,  height |-> 640] }

InitMapper ==
    /\ session = "unset"
    /\ db = <<>>
    /\ req = NoReq
    /\ res = NoRes
    /\ image \in MapperImages
    /\ letterbox = NoLetterbox
    /\ output \in RawOutputs
    /\ detections = <<>>
    /\ canvas = NoCanvas
    /\ sample = NoSample
    /\ pc = "input"

RunMapper ==
    /\ pc = "input"
    /\ letterbox' = preprocessImage(image.width, image.height)
    /\ detections' = processDetections(output, image.width, image.height,
                                       letterbox'.scale)
    /\ pc' = "done"
    /\ UNCHANGED <<session, db, req, res, image, output, canvas, sample>>

NextMapper == RunMapper

SpecMapper == InitMapper /\ [][NextMapper]_vars

\* the whole rows of a flat raw output, as records
RowsOf(data) ==
    [j \in 1 .. (Len(data) \div 6) |->
        [xCenter    |-> data[6 * (j - 1) + 1],
         yCenter    |-> data[6 * (j - 1) + 2],
         width      |-> data[6 * (j - 1) + 3],
         height     |-> data[6 * (j - 1) + 4],
         confidence |-> data[6 * (j - 1) + 5],
         classId    |-> data[6 * (j - 1) + 6]]]

\* confidence strictly above one half
AboveHalf(r) == 2 * r.confidence.num > r.confidence.den

Survivors(data) == SelectSeq(RowsOf(data), AboveHalf)

Tag(r) == [confidence |-> r.confidence, classId |-> r.classId]

\* C4: the confidence filter is a strict greater-than at 0.5: a whole row
\* yields a Detection if and only if its confidence is > 0.5, so a row at
\* exactly 0.5 is dropped and a row at 0.5001 is kept.
C4_StrictThreshold ==
    pc = "done" =>
        LET rows == RowsOf(output.data)
        IN  /\ Len(detections) = Cardinality({j \in DOMAIN rows : AboveHalf(rows[j])})
            /\ \A j \in DOMAIN rows :
                 (\E i \in DOMAIN detections : Tag(detections[i]) = Tag(rows[j]))
                    <=> AboveHalf(rows[j])

\* a row at exactly 0.5 followed by a row at 0.5001: only the second is kept
C4_Witness ==
    /\ pc = "done"
    /\ Len(output.data) = 12
    /\ output.data[5] = Rat(1, 2)
    /\ output.data[11] = Rat(5001, 10000)
    /\ Len(detections) = 1
    /\ detections[1].confidence = Rat(5001, 10000)

\* C5: the returned list holds exactly one Detection per surviving row, in the
\* rows' input order, each with its row's confidence and classId unchanged.
C5_RowOrderPreserved ==
    pc = "done" =>
        LET kept == Survivors(output.data)
        IN  /\ Len(detections) = Len(kept)
            /\ \A i \in DOMAIN detections : Tag(detections[i]) = Tag(kept[i])

\* three rows, the middle one dropped, the survivors in rising confidence:
\* the list is in input order, not sorted by confidence
C5_Witness ==
    /\ pc = "done"
    /\ Len(output.data) >= 18
    /\ Len(detections) = 2
    /\ ~AboveHalf(RowsOf(output.data)[2])
    /\ GT(detections[2].confidence, detections[1].confidence)
    /\ detections[1].classId # detections[2].classId

\* the tolerance of the geometric properties, in original-image pixels
Tolerance == Rat(1, 1000)

Near(a, b) == LE(Sub(a, b), Tolerance) /\ LE(Sub(b, a), Tolerance)

Half(a) == Div(a, Int2Num(2))

\* C1 as stated: when the longer axis scales to exactly targetSize, a kept row
\* whose box centre is the exact canvas centre (targetSize/2, targetSize/2)
\* is mapped to the centre (w/2, h/2) of the original image, within
\* tolerance.  The Detection's centre is read either way: (x, y) itself, or
\* (x + width/2, y + height/2) with x, y the top-left corner.
C1_CentreRoundTrip ==
    pc = "done" =>
        LET kept == Survivors(output.data)
        IN  \A i \in DOMAIN detections :
              ( /\ i \in DOMAIN kept
                /\ kept[i].xCenter = Rat(targetSize, 2)
                /\ kept[i].yCenter = Rat(targetSize, 2)
                /\ (letterbox.scaledWidth = targetSize
                      \/ letterbox.scaledHeight = targetSize) )
              => LET d  == detections[i]
                     cx == Half(Int2Num(image.width))
                     cy == Half(Int2Num(image.height))
                 IN  \/ Near(d.x, cx) /\ Near(d.y, cy)
                     \/ /\ Near(Add(d.x, Half(d.width)), cx)
                        /\ Near(Add(d.y, Half(d.height)), cy)

\* the row's box lies inside the part of the canvas the image occupies
InsideImageArea(r, lb) ==
    /\ LE(Int2Num(lb.left), Sub(r.xCenter, Half(r.width)))
    /\ LE(Add(r.xCenter, Half(r.width)), Int2Num(lb.left + lb.scaledWidth))
    /\ LE(Int2Num(lb.top), Sub(r.yCenter, Half(r.height)))
    /\ LE(Add(r.yCenter, Half(r.height)), Int2Num(lb.top + lb.scaledHeight))

\* C2 as stated: a Detection made from a row whose box lies inside the image
\* area of the canvas stays inside the original image: 0 <= x, 0 <= y,
\* x + width <= originalWidth and y + height <= originalHeight, within
\* tolerance.
C2_DetectionInsideImage ==
    pc = "done" =>
        LET kept == Survivors(output.data)
        IN  \A i \in DOMAIN detections :
              (i \in DOMAIN kept /\ InsideImageArea(kept[i], letterbox))
              => LET d == detections[i]
                 IN  /\ LE(Int2Num(0), d.x)
                     /\ LE(Int2Num(0), d.y)
                     /\ LE(Add(d.x, d.width),
                           Add(Int2Num(image.width), Tolerance))
                     /\ LE(Add(d.y, d.height),
                           Add(Int2Num(image.height), Tolerance))

(***************************************************************************)
(* SpecTensor: the tensor /predict builds from the canvas, read at one     *)
(* element [0, c, r, k].                                                   *)
(***************************************************************************)
TensorImages ==
    { [width |-> 1280, height |-> 720],
      [width |-> 640,  height |-> 640],
      [width |-> 100,  height |-> 200] }

\* canvas rows and columns tried for the lit pixel and for the element read
CanvasCoords == {0, 1, 2, 160, 319, 320, 479, 639}

Colours == {<<255, 0, 0>>, <<0, 255, 0>>, <<10, 128, 255>>}

InitTensor ==
    /\ session = "unset"
    /\ db = <<>>
    /\ req = NoReq
    /\ res = NoRes
    /\ image \in TensorImages
    /\ letterbox = NoLetterbox
    /\ output = NoOutput
    /\ detections = <<>>
    /\ canvas = NoCanvas
    /\ sample = NoSample
    /\ pc = "input"

\* preprocessImage renders the canvas (the padding black, one pixel of the
\* image lit), /predict wraps float32Data in the tensor, and the session
\* reads element [0, c, r, k] of it
BuildTensor ==
    /\ pc = "input"
    /\ letterbox' = preprocessImage(image.width, image.height)
    /\ \E row \in CanvasCoords, col \in CanvasCoords, rgb \in Colours :
         /\ row >= letterbox'.top
         /\ row < letterbox'.top + letterbox'.scaledHeight
         /\ col >= letterbox'.left
         /\ col < letterbox'.left + letterbox'.scaledWidth
         /\ canvas' = [row |-> row, col |-> col, rgb |-> rgb]
    /\ \E c \in 0 .. 2, r \in CanvasCoords, k \in CanvasCoords :
         sample' = [dims   |-> TensorDims,
                    length |-> RawBufferLength,
                    c      |-> c,
                    r      |-> r,
                    k      |-> k,
                    value  |-> TensorAt(canvas', c, r, k)]
    /\ pc' = "done"
    /\ UNCHANGED <<session, db, req, res, image, output, detections>>

NextTensor == BuildTensor

SpecTensor == InitTensor /\ [][NextTensor]_vars

\* C9 as stated: the tensor has 3 * targetSize * targetSize values in [0, 1]
\* and is channel-first as its dims [1, 3, targetSize, targetSize] declare:
\* element [0, c, r, k] is the 8-bit sample of channel c at pixel (r, k) of
\* the canvas divided by 255.
C9_TensorChannelFirst ==
    pc = "done" =>
        /\ sample.length = 3 * targetSize * targetSize
        /\ sample.dims = <<1, 3, targetSize, targetSize>>
        /\ LE(Int2Num(0), sample.value)
        /\ LE(sample.value, Int2Num(1))
        /\ sample.value = Rat(CanvasSample(canvas, sample.r, sample.k, sample.c), 255)

(***************************************************************************)
(* Spec: the server.  The model loads, and /predict, /approve/:id and      *)
(* /detections/:userId requests are answered one at a time.                *)
(***************************************************************************)
ServerImages ==
    { NoFile,
      [width |-> 1280, height |-> 720],
      [width |-> 1281, height |-> 1] }

\* raw outputs of length 0, 6, 7 and 12, and a missing output
ServerOutputs ==
    { NoOutput,
      [data |-> <<>>, missing |-> FALSE],
      [data |-> Row(320, 320, 100, 60, 9, 10, 0), missing |-> FALSE],
      [data |-> Row(320, 320, 100, 60, 9, 10, 0) \o <<Int2Num(320)>>,
       missing |-> FALSE],
      [data |-> Row(160, 400, 40, 40, 3, 10, 3) \o Row(600, 320, 80, 40, 5001, 10000, 2),
       missing |-> FALSE] }

UserIds == {"u1", "u2"}

\* req.user.role as the tokens of /register, /login and /register-admin carry it
Roles == {"user", "admin"}

Init ==
    /\ session = "unset"
    /\ db = <<>>
    /\ req = NoReq
    /\ res = NoRes
    /\ image = NoImage
    /\ letterbox = NoLetterbox
    /\ output = NoOutput
    /\ detections = <<>>
    /\ canvas = NoCanvas
    /\ sample = NoSample
    /\ pc = "input"

\* ort.InferenceSession.create resolved
LoadModel ==
    /\ session = "unset"
    /\ session' = "loaded"
    /\ UNCHANGED <<db, req, res, image, letterbox, output, detections, canvas, sample, pc>>

\* ort.InferenceSession.create rejected: process.exit(1)
LoadModelFailed ==
    /\ session = "unset"
    /\ session' = "exited"
    /\ UNCHANGED <<db, req, res, image, letterbox, output, detections, canvas, sample, pc>>

Predict ==
    /\ session # "exited"
    /\ Len(db) < MaxRecords
    /\ \E file \in ServerImages, out \in ServerOutputs, userId \in UserIds,
          stored \in BOOLEAN :
         /\ req' = [kind |-> "predict", file |-> file, output |-> out,
                    userId |-> userId, stored |-> stored]
         /\ PredictHandler(file, out, userId, stored)
    /\ UNCHANGED <<session, image, letterbox, output, detections, canvas, sample, pc>>

Approve ==
    /\ session # "exited"
    /\ \E role \in Roles, id \in 1 .. MaxRecords + 1 :
         /\ req' = [kind |-> "approve", role |-> role, id |-> id]
         /\ ApproveHandler(role, id)
    /\ UNCHANGED <<session, image, letterbox, output, detections, canvas, sample, pc>>

GetDetections ==
    /\ session # "exited"
    /\ \E userId \in UserIds :
         /\ req' = [kind |-> "detections", userId |-> userId]
         /\ DetectionsHandler(userId)
    /\ UNCHANGED <<session, image, letterbox, output, detections, canvas, sample, pc>>

Next ==
    \/ LoadModel
    \/ LoadModelFailed
    \/ Predict
    \/ Approve
    \/ GetDetections

Spec == Init /\ [][Next]_vars

\* the upload's scaled size is one sharp's resize accepts (positive integers)
SharpResizes(file) ==
    LET lb == preprocessImage(file.width, file.height)
    IN  lb.scaledWidth >= 1 /\ lb.scaledHeight >= 1

\* a step that answers a /predict request
PredictStep == req'.kind = "predict" /\ <<req, res, db>>' # <<req, res, db>>

\* C3 as stated: a raw output whose length is not a multiple of 6 fails the
\* request with an invalid-model-output error: no detection list is produced,
\* nothing is persisted, the caller receives the failure.  Only requests
\* with nothing else to fail on are looked at: the upload decodes, the
\* session is loaded, the image and the document can be written.
C3_BadLengthRejected ==
    [][ ( /\ PredictStep
          /\ session = "loaded"
          /\ req'.file # NoFile
          /\ SharpResizes(req'.file)
          /\ req'.stored
          /\ ~req'.output.missing
          /\ Len(req'.output.data) % 6 # 0 )
        => ( /\ res'.status = 500
             /\ res'.details = "Invalid Model Output"
             /\ db' = db ) ]_vars

\* C8: an empty raw output is not an error: it is never refused as invalid
\* model output, and when the upload decodes, the session is loaded and the
\* result is stored, the request succeeds with an empty detections array and
\* a pending document without detections.
C8_EmptyOutputSucceeds ==
    [][ ( /\ PredictStep
          /\ ~req'.output.missing
          /\ Len(req'.output.data) = 0 )
        => ( /\ res'.status = 500 => res'.details # "Invalid Model Output"
             /\ ( /\ session = "loaded"
                  /\ req'.file # NoFile
                  /\ SharpResizes(req'.file)
                  /\ req'.stored )
                => ( /\ res'.status = 200
                     /\ res'.success
                     /\ res'.detections = <<>>
                     /\ Len(db') = Len(db) + 1
                     /\ db'[Len(db')].detections = <<>> ) ) ]_vars

\* the answer to a /predict whose model output was empty
C8_Witness ==
    /\ req.kind = "predict"
    /\ ~req.output.missing
    /\ req.output.data = <<>>
    /\ res.status = 200
    /\ res.detections = <<>>
    /\ db # <<>>
    /\ db[Len(db)].detections = <<>>
    /\ db[Len(db)]._id = res.detectionId

\* C10: every stored document is "pending" or "approved"; a document is
\* created by /predict as "pending"; it becomes "approved" only by an
\* /approve/:id request of an admin naming it; a non-admin /approve answers
\* 403 and changes no document; an approved document stays approved.
C10_ApprovalWorkflow ==
    /\ [](\A i \in DOMAIN db : db[i].status \in {"pending", "approved"})
    /\ [][ /\ \A i \in DOMAIN db' \ DOMAIN db :
                req'.kind = "predict" /\ db'[i].status = "pending"
           /\ \A i \in DOMAIN db :
                /\ i \in DOMAIN db'
                /\ db[i].status = "approved" => db'[i].status = "approved"
                /\ (db[i].status = "pending" /\ db'[i].status = "approved")
                     => ( /\ req'.kind = "approve"
                          /\ req'.role = "admin"
                          /\ req'.id = db[i]._id )
           /\ (req'.kind = "approve" /\ req'.role # "admin")
                => (res'.status = 403 /\ db' = db) ]_vars

\* one document approved by an admin, then a non-admin refused on the other
C10_Witness ==
    /\ Len(db) = 2
    /\ db[1].status = "approved"
    /\ db[2].status = "pending"
    /\ req.kind = "approve"
    /\ req.role = "user"
    /\ req.id = 2
    /\ res.status = 403

====
